---- MODULE Spec2Model ----
(***************************************************************************)
(* Model of maad/features/alpha_indices.py (scikit-maad alpha indices).    *)
(*                                                                         *)
(* The module is a library of functions over arrays.  The state machine is *)
(* a caller that picks a function and its arguments (pc = "idle"), lets    *)
(* the function run to completion (pc = "done", or "raised" when the       *)
(* function raises) and then goes back to idle.                            *)
(*   call : name of the function that ran                                  *)
(*   args : the arguments as the caller passed them                        *)
(*   ret  : the returned values                                            *)
(*   heap : contents of the caller's array object after the call           *)
(* Floating point values are modelled as exact extended rationals n/d,     *)
(* with 1/0 = +inf, -1/0 = -inf and 0/0 = nan as numpy produces them.      *)
(* Time (dt, durations) and frequencies are integers in a fixed unit.      *)
(***************************************************************************)
EXTENDS Integers, Sequences, FiniteSets, TLC

VARIABLES pc, call, args, ret, heap

vars == <<pc, call, args, ret, heap>>

(***************************************************************************)
(* Bounds of the model                                                     *)
(***************************************************************************)
MaxLen == 5
MaxRows == 2
MaxCols == 3
MaxEventCols == 2
MaxDt == 2
MaxRejectDuration == 4
MaxPos == 3
MaxStep == 3
MaxScale == 3
MaxFiles == 3
MaxFrames == 5
MaxOrder == 2
MaxPyr == 3
MaxSamples == 3
MaxSeries == 2

(***************************************************************************)
(* numpy float arithmetic on extended rationals                            *)
(***************************************************************************)
Abs(i) == IF i < 0 THEN -i ELSE i

Sgn(i) == IF i < 0 THEN -1 ELSE IF i > 0 THEN 1 ELSE 0

RECURSIVE GCD(_, _)
GCD(a, b) == IF b = 0 THEN a ELSE GCD(b, a % b)

Fin(n, d) ==
    LET g == GCD(Abs(n), d)
    IN  [n |-> Sgn(n) * (Abs(n) \div g), d |-> d \div g]

Num(i) == [n |-> i, d |-> 1]

Zero == Num(0)

One == Num(1)

Inf == [n |-> 1, d |-> 0]

NaN == [n |-> 0, d |-> 0]

IsNaN(a) == a.d = 0 /\ a.n = 0

IsInf(a) == a.d = 0 /\ a.n # 0

IsFinite(a) == a.d # 0

Neg(a) == [a EXCEPT !.n = -a.n]

Add(a, b) ==
    IF IsNaN(a) \/ IsNaN(b) THEN NaN
    ELSE IF IsInf(a) /\ IsInf(b) THEN (IF a.n = b.n THEN a ELSE NaN)
    ELSE IF IsInf(a) THEN a
    ELSE IF IsInf(b) THEN b
    ELSE Fin(a.n * b.d + b.n * a.d, a.d * b.d)

Sub(a, b) == Add(a, Neg(b))

Mul(a, b) ==
    IF IsNaN(a) \/ IsNaN(b) THEN NaN
    ELSE IF IsInf(a) \/ IsInf(b)
         THEN [n |-> Sgn(a.n) * Sgn(b.n), d |-> 0]
    ELSE Fin(a.n * b.n, a.d * b.d)

\* numpy true division: x/0 is +-inf, 0/0 is nan (a RuntimeWarning, no raise)
Div(a, b) ==
    IF IsNaN(a) \/ IsNaN(b) THEN NaN
    ELSE IF IsInf(a) /\ IsInf(b) THEN NaN
    ELSE IF IsInf(a) THEN (IF b.n < 0 THEN Neg(a) ELSE a)
    ELSE IF IsInf(b) THEN Zero
    ELSE IF b.n = 0 THEN [n |-> Sgn(a.n), d |-> 0]
    ELSE Fin(a.n * b.d * Sgn(b.n), a.d * Abs(b.n))

RECURSIVE SumInts(_)
SumInts(s) == IF s = <<>> THEN 0 ELSE Head(s) + SumInts(Tail(s))

RECURSIVE SumNums(_)
SumNums(s) == IF s = <<>> THEN Zero ELSE Add(Head(s), SumNums(Tail(s)))

\* numpy mean of a list of integers: nan for an empty slice
MeanInts(s) == Div(Num(SumInts(s)), Num(Len(s)))

(***************************************************************************)
(* acoustic_events                                                         *)
(***************************************************************************)
dB_threshold == 6

None == -1

\* round(rejectDuration / dt): Python 3 rounds halves to the even integer
PyRound(num, den) ==
    LET q == num \div den
        r == num % den
    IN  IF 2 * r < den THEN q
        ELSE IF 2 * r > den THEN q + 1
        ELSE IF q % 2 = 0 THEN q ELSE q + 1

RejectLength(rejectDuration, dt) == PyRound(rejectDuration, dt)

\* EVN = (xdB >= dB_threshold) * 1, on a matrix given as a sequence of rows
Binarize(X, thr) ==
    [r \in DOMAIN X |-> [i \in DOMAIN X[r] |-> IF X[r][i] >= thr THEN 1 ELSE 0]]

\* shape of the structuring element: np.ones(rejectLength+1) for a vector,
\* [list(np.ones(rejectLength+1))] (one row) for a matrix
Kernel1D_Short(rejectLength) == <<1, rejectLength>>

Kernel1D(rejectLength) == <<1, rejectLength + 1>>

Kernel2D_TwoRows(rejectLength) == <<2, rejectLength + 1>>

Kernel2D(rejectLength) == <<1, rejectLength + 1>>

CellAt(B, r, i) ==
    IF r \in DOMAIN B /\ i \in DOMAIN B[r] THEN B[r][i] ELSE 0

\* scipy binary_erosion, border_value = 0, centre of the structure at
\* shape // 2: a cell survives when the structure fits in the foreground
binary_erosion(B, structure) ==
    [r \in DOMAIN B |-> [i \in DOMAIN B[r] |->
        IF \A a \in 0..(structure[1] - 1) : \A j \in 0..(structure[2] - 1) :
              CellAt(B, r + a - (structure[1] \div 2),
                        i + j - (structure[2] \div 2)) = 1
        THEN 1 ELSE 0]]

\* scipy binary_dilation: the reflected structure (origin shifted by -1 on
\* even sizes), border_value = 0
binary_dilation(B, structure) ==
    [r \in DOMAIN B |-> [i \in DOMAIN B[r] |->
        IF \E a \in 0..(structure[1] - 1) : \E j \in 0..(structure[2] - 1) :
              CellAt(B, r - a + (structure[1] \div 2),
                        i - j + (structure[2] \div 2)) = 1
        THEN 1 ELSE 0]]

\* maad.util.rle: run lengths and run values of a vector
RECURSIVE rle(_)
rle(b) ==
    IF Len(b) = 0 THEN <<>>
    ELSE LET rest == rle(Tail(b))
         IN  IF rest # <<>> /\ rest[1].v = Head(b)
             THEN <<[l |-> rest[1].l + 1, v |-> Head(b)]>> \o Tail(rest)
             ELSE <<[l |-> 1, v |-> Head(b)]>> \o rest

RunLengths(runs) == [k \in DOMAIN runs |-> runs[k].l]

\* EVNmean, EVNsum, EVNcount of one binary vector b
EventStats(b, dt, duration) ==
    LET lv  == rle(b)
        l1  == RunLengths(SelectSeq(lv, LAMBDA run : run.v = 1))
        sv  == SumInts([k \in DOMAIN lv |-> lv[k].v])
    IN  [EVNmean  |-> IF SumInts(l1) # 0
                      THEN Mul(MeanInts(l1), Num(dt)) ELSE Zero,
         EVNsum   |-> Num(SumInts(l1) * dt),
         EVNcount |-> Div(Num(sv), Num(duration))]

\* acoustic_events on a 1-D vector
acoustic_events_1d(xdB, dt, thr, rejectDuration) ==
    LET duration == (Len(xdB) - 1) * dt
        EVN0     == Binarize(<<xdB>>, thr)
        EVN      == IF rejectDuration # None
                    THEN LET kernel == Kernel1D(RejectLength(rejectDuration, dt))
                         IN  binary_dilation(binary_erosion(EVN0, kernel), kernel)[1]
                    ELSE EVN0[1]
        st       == EventStats(EVN, dt, duration)
    IN  [EVNsum |-> st.EVNsum, EVNmean |-> st.EVNmean,
         EVNcount |-> st.EVNcount, EVN |-> EVN]

\* acoustic_events on a 2-D matrix (frequency rows x time columns)
acoustic_events_2d(xdB, dt, thr, rejectDuration) ==
    LET duration == (Len(xdB[1]) - 1) * dt
        EVN0     == Binarize(xdB, thr)
        EVN      == IF rejectDuration # None
                    THEN LET kernel == Kernel2D(RejectLength(rejectDuration, dt))
                         IN  binary_dilation(binary_erosion(EVN0, kernel), kernel)
                    ELSE EVN0
        st       == [i \in DOMAIN EVN |-> EventStats(EVN[i], dt, duration)]
    IN  [EVNsum   |-> [i \in DOMAIN EVN |-> st[i].EVNsum],
         EVNmean  |-> [i \in DOMAIN EVN |-> st[i].EVNmean],
         EVNcount |-> [i \in DOMAIN EVN |-> st[i].EVNcount],
         EVN      |-> EVN]

Samples == {dB_threshold - 1, dB_threshold, dB_threshold + 1}

Samples2D == {dB_threshold - 1, dB_threshold}

Vectors(S, maxlen) == UNION {[1..n -> S] : n \in 1..maxlen}

Matrices(S, maxrows, maxcols) ==
    UNION {[1..m -> [1..n -> S]] : m \in 1..maxrows, n \in 1..maxcols}

RejectDurations == {None} \cup (0..MaxRejectDuration)

(***************************************************************************)
(* The caller                                                              *)
(***************************************************************************)
Init ==
    /\ pc = "idle"
    /\ call = "none"
    /\ args = <<>>
    /\ ret = <<>>
    /\ heap = <<>>

CallAcousticEvents1D ==
    /\ pc = "idle"
    /\ \E xdB \in Vectors(Samples, MaxLen), dt \in 1..MaxDt,
          rejectDuration \in RejectDurations :
          /\ args' = [xdB |-> xdB, dt |-> dt, dB_threshold |-> dB_threshold,
                      rejectDuration |-> rejectDuration]
          /\ ret' = acoustic_events_1d(xdB, dt, dB_threshold, rejectDuration)
          /\ heap' = xdB
    /\ call' = "acoustic_events_1d"
    /\ pc' = "done"

CallAcousticEvents2D ==
    /\ pc = "idle"
    /\ \E xdB \in Matrices(Samples2D, MaxRows, MaxEventCols), dt \in 1..MaxDt,
          rejectDuration \in RejectDurations :
          /\ args' = [xdB |-> xdB, dt |-> dt, dB_threshold |-> dB_threshold,
                      rejectDuration |-> rejectDuration]
          /\ ret' = acoustic_events_2d(xdB, dt, dB_threshold, rejectDuration)
          /\ heap' = xdB
    /\ call' = "acoustic_events_2d"
    /\ pc' = "done"

Return ==
    /\ pc \in {"done", "raised"}
    /\ pc' = "idle"
    /\ call' = "none"
    /\ args' = <<>>
    /\ ret' = <<>>
    /\ heap' = <<>>

NextEvents == CallAcousticEvents1D \/ CallAcousticEvents2D \/ Return

SpecEvents == Init /\ [][NextEvents]_vars

(***************************************************************************)
(* intoBins, _energy_per_freqbin, soundscapeIndex                          *)
(* Positions (frequencies) are integers in units of 1000 Hz; a matrix x is  *)
(* a sequence of rows, one row per position, one column per time frame.    *)
(***************************************************************************)
CeilDiv(a, b) == IF a <= 0 THEN 0 ELSE (a + b - 1) \div b

\* np.arange(start, stop, step) on integers
Arange(start, stop, step) ==
    [k \in 1..CeilDiv(stop - start, step) |-> start + (k - 1) * step]

BinStepTooSmall_OrEqual(an, bin_step) == bin_step <= an[2] - an[1]

\* the test of line 84
BinStepTooSmall(an, bin_step) == bin_step < an[2] - an[1]

\* indices = (an>=b0)*(an<b), as the increasing list of selected indices
BinIndices(an, b0, b) ==
    SelectSeq([p \in DOMAIN an |-> p], LAMBDA p : an[p] >= b0 /\ an[p] < b)

\* x[indices, t]
ColumnOf(x, indices, t) == [k \in DOMAIN indices |-> x[indices[k]][t]]

BinScale_None(s) == One

\* mean(s): the mean number of positions per bin
BinScale(s) == MeanInts(s)

intoBins(x, an, bin_step, bin_min, bin_max) ==
    IF BinStepTooSmall(an, bin_step)
    THEN [raised |-> TRUE, xbin |-> <<>>, bins |-> <<>>]
    ELSE LET bmin    == IF bin_min = None THEN an[1] ELSE bin_min
             bmax    == IF bin_max = None THEN an[Len(an)] ELSE bin_max
             bins    == Arange(bmin, bmax + bin_step, bin_step)
             nb      == Len(bins) - 1
             indices == [k \in 1..nb |-> BinIndices(an, bins[k], bins[k + 1])]
             s       == [k \in 1..nb |-> Len(indices[k])]
             xbin    == [k \in 1..nb |-> [t \in DOMAIN x[1] |->
                            MeanInts(ColumnOf(x, indices[k], t))]]
         IN  [raised |-> FALSE,
              xbin   |-> [k \in 1..nb |-> [t \in DOMAIN x[1] |->
                             Mul(xbin[k][t], BinScale(s))]],
              bins   |-> SubSeq(bins, 1, nb)]

\* maad.util.index_bw: the positions within the closed interval [lo, hi]
index_bw(fn, bw) ==
    SelectSeq([p \in DOMAIN fn |-> p], LAMBDA p : fn[p] >= bw[1] /\ fn[p] <= bw[2])

RECURSIVE SumRows(_)
SumRows(rows) ==
    IF rows = <<>> THEN Zero ELSE Add(SumNums(Head(rows)), SumRows(Tail(rows)))

_energy_per_freqbin(PSDxx, fn, flim, bin_step) ==
    LET b == intoBins(PSDxx, fn, bin_step, 0, fn[Len(fn)])
    IN  IF b.raised THEN [raised |-> TRUE, energy |-> NaN]
        ELSE LET indf == index_bw(b.bins, flim)
             IN  [raised |-> FALSE,
                  energy |-> SumRows([k \in DOMAIN indf |-> b.xbin[indf[k]]])]

flim_bioPh == <<1, 10>>

flim_antroPh == <<0, 1>>

Square(Sxx) == [p \in DOMAIN Sxx |-> [t \in DOMAIN Sxx[p] |-> Sxx[p][t] * Sxx[p][t]]]

soundscapeIndex_SumOverDifference(Sxx, fn, bioBand, antroBand, step) ==
    LET bin_step == IF step = None THEN fn[2] - fn[1] ELSE step
        PSDxx    == Square(Sxx)
        bio      == _energy_per_freqbin(PSDxx, fn, bioBand, bin_step)
        antro    == _energy_per_freqbin(PSDxx, fn, antroBand, bin_step)
    IN  IF bio.raised \/ antro.raised
        THEN [raised |-> TRUE, NDSI |-> NaN, ratioBA |-> NaN,
              antroPh |-> NaN, bioPh |-> NaN]
        ELSE [raised  |-> FALSE,
              NDSI    |-> Div(Add(bio.energy, antro.energy),
                              Sub(bio.energy, antro.energy)),
              ratioBA |-> Div(bio.energy, antro.energy),
              antroPh |-> antro.energy,
              bioPh   |-> bio.energy]

soundscapeIndex(Sxx, fn, bioBand, antroBand, step) ==
    LET bin_step == IF step = None THEN fn[2] - fn[1] ELSE step
        PSDxx    == Square(Sxx)
        bio      == _energy_per_freqbin(PSDxx, fn, bioBand, bin_step)
        antro    == _energy_per_freqbin(PSDxx, fn, antroBand, bin_step)
    IN  IF bio.raised \/ antro.raised
        THEN [raised |-> TRUE, NDSI |-> NaN, ratioBA |-> NaN,
              antroPh |-> NaN, bioPh |-> NaN]
        ELSE [raised  |-> FALSE,
              NDSI    |-> Div(Sub(bio.energy, antro.energy),
                              Add(bio.energy, antro.energy)),
              ratioBA |-> Div(bio.energy, antro.energy),
              antroPh |-> antro.energy,
              bioPh   |-> bio.energy]

Amplitudes == {0, 1}

FrameCounts == {1, 2}

\* strictly increasing position vectors with at least two positions
PositionVectors ==
    {an \in UNION {[1..n -> 0..MaxPos] : n \in 2..(MaxPos + 1)} :
        \A p \in 1..(Len(an) - 1) : an[p] < an[p + 1]}

\* matrices with one row per position of an
MatricesOn(an) == UNION {[DOMAIN an -> [1..T -> Amplitudes]] : T \in FrameCounts}

CallIntoBins ==
    /\ pc = "idle"
    /\ \E an \in PositionVectors, bin_step \in 1..MaxStep :
       \E x \in MatricesOn(an) :
          LET r == intoBins(x, an, bin_step, None, None)
          IN  /\ args' = [x |-> x, an |-> an, bin_step |-> bin_step,
                          bin_min |-> None, bin_max |-> None]
              /\ ret' = [xbin |-> r.xbin, bins |-> r.bins]
              /\ pc' = IF r.raised THEN "raised" ELSE "done"
              /\ heap' = x
    /\ call' = "intoBins"

CallEnergyPerFreqbin ==
    /\ pc = "idle"
    /\ \E fn \in PositionVectors, bin_step \in 1..MaxStep,
          flim \in {flim_bioPh, flim_antroPh} :
       \E PSDxx \in MatricesOn(fn) :
          LET r == _energy_per_freqbin(PSDxx, fn, flim, bin_step)
          IN  /\ args' = [PSDxx |-> PSDxx, fn |-> fn, flim |-> flim,
                          bin_step |-> bin_step]
              /\ ret' = [energy |-> r.energy]
              /\ pc' = IF r.raised THEN "raised" ELSE "done"
              /\ heap' = PSDxx
    /\ call' = "_energy_per_freqbin"

CallSoundscapeIndex ==
    /\ pc = "idle"
    /\ \E fn \in PositionVectors, step \in {None} \cup (1..MaxStep) :
       \E Sxx \in MatricesOn(fn) :
          LET r == soundscapeIndex(Sxx, fn, flim_bioPh, flim_antroPh, step)
          IN  /\ args' = [Sxx |-> Sxx, fn |-> fn, flim_bioPh |-> flim_bioPh,
                          flim_antroPh |-> flim_antroPh, step |-> step]
              /\ ret' = [NDSI |-> r.NDSI, ratioBA |-> r.ratioBA,
                         antroPh |-> r.antroPh, bioPh |-> r.bioPh]
              /\ pc' = IF r.raised THEN "raised" ELSE "done"
              /\ heap' = Sxx
    /\ call' = "soundscapeIndex"

NextBins == CallIntoBins \/ CallEnergyPerFreqbin \/ CallSoundscapeIndex \/ Return

SpecBins == Init /\ [][NextBins]_vars

(***************************************************************************)
(* acousticComplexityIndex                                                 *)
(***************************************************************************)
\* abs(diff(Sxx, 1)): absolute first difference along the time axis
AbsDiff(Sxx) ==
    [p \in DOMAIN Sxx |-> [t \in 1..(Len(Sxx[p]) - 1) |->
        Abs(Sxx[p][t + 1] - Sxx[p][t])]]

TotalSum(Sxx) == SumInts([p \in DOMAIN Sxx |-> SumInts(Sxx[p])])

acousticComplexityIndex(Sxx, norm) ==
    LET d      == AbsDiff(Sxx)
        ACI_xx == [p \in DOMAIN d |-> [t \in DOMAIN d[p] |->
                     IF norm = "per_bin"
                     THEN Div(Num(d[p][t]), Num(SumInts(Sxx[p])))
                     ELSE Div(Num(d[p][t]), Num(TotalSum(Sxx)))]]
        ACI_per_bin == [p \in DOMAIN ACI_xx |-> SumNums(ACI_xx[p])]
    IN  [ACI_xx |-> ACI_xx, ACI_per_bin |-> ACI_per_bin,
         ACI_sum |-> SumNums(ACI_per_bin)]

CallACI ==
    /\ pc = "idle"
    /\ \E Sxx \in Matrices(Amplitudes, MaxRows, MaxCols),
          norm \in {"per_bin", "global"} :
          /\ args' = [Sxx |-> Sxx, norm |-> norm]
          /\ ret' = acousticComplexityIndex(Sxx, norm)
          /\ heap' = Sxx
    /\ call' = "acousticComplexityIndex"
    /\ pc' = "done"

NextACI == CallACI \/ Return

SpecACI == Init /\ [][NextACI]_vars

(***************************************************************************)
(* gini, entropy, score on a 1-D array owned by the caller                 *)
(***************************************************************************)
RECURSIVE Insert(_, _)
Insert(v, sorted) ==
    IF sorted = <<>> \/ v <= Head(sorted) THEN <<v>> \o sorted
    ELSE <<Head(sorted)>> \o Insert(v, Tail(sorted))

\* x.sort(): ascending, in place
RECURSIVE Sort(_)
Sort(x) == IF x = <<>> THEN <<>> ELSE Insert(Head(x), Sort(Tail(x)))

gini_ZeroBasedRanks(x0, corr) ==
    IF SumInts(x0) = 0 THEN [G |-> Zero, x |-> x0]
    ELSE LET n  == Len(x0)
             x  == Sort(x0)
             G1 == Num(SumInts([i \in 1..n |-> x[i] * (i - 1)]))
             G2 == Sub(Div(Mul(Num(2), G1), Num(SumInts(x))), Num(n + 1))
         IN  [G |-> IF corr THEN Div(G2, Num(n - 1)) ELSE Div(G2, Num(n)),
              x |-> x]

\* gini returns G; x is the content of the argument array afterwards
gini(x0, corr) ==
    IF SumInts(x0) = 0 THEN [G |-> Zero, x |-> x0]
    ELSE LET n  == Len(x0)
             x  == Sort(x0)
             G1 == Num(SumInts([i \in 1..n |-> x[i] * i]))
             G2 == Sub(Div(Mul(Num(2), G1), Num(SumInts(x))), Num(n + 1))
         IN  [G |-> IF corr THEN Div(G2, Num(n - 1)) ELSE Div(G2, Num(n)),
              x |-> x]

RECURSIVE MinInts(_)
MinInts(x) ==
    IF Len(x) = 1 THEN x[1]
    ELSE LET m == MinInts(Tail(x)) IN IF Head(x) < m THEN Head(x) ELSE m

RECURSIVE MaxInts(_)
MaxInts(x) ==
    IF Len(x) = 1 THEN x[1]
    ELSE LET m == MaxInts(Tail(x)) IN IF Head(x) > m THEN Head(x) ELSE m

\* maad.util.linear_scale(x, minval=0, maxval=1): affine rescale into [0, 1]
linear_scale(x) ==
    [i \in DOMAIN x |->
        Div(Num(x[i] - MinInts(x)), Num(MaxInts(x) - MinInts(x)))]

\* sys.float_info.min, the smallest positive normal float (2^-1022), kept
\* as a symbol: no arithmetic is done on it, only its logarithm is taken
_MIN_ == [n |-> 1, d |-> -1022]

entropy_DivByLen(datain) ==
    IF Len(datain) = 1 THEN [branch |-> "single", pmf |-> <<>>]
    ELSE IF SumInts(datain) = 0 THEN [branch |-> "null", pmf |-> <<>>]
    ELSE [branch |-> IF MinInts(datain) < 0 THEN "rescaled" ELSE "pmf",
          pmf    |-> [i \in DOMAIN datain |->
                        Div(Num(datain[i]), Num(Len(datain)))]]

\* entropy along axis 0 of a 1-D array.  On the branches "single" and "null"
\* H = 0 and no pmf is formed; otherwise H = -sum(pmf*log(pmf))/log(n) is a
\* function of the pmf, which is returned in its place.
entropy(datain) ==
    IF Len(datain) = 1 THEN [branch |-> "single", pmf |-> <<>>]
    ELSE IF SumInts(datain) = 0 THEN [branch |-> "null", pmf |-> <<>>]
    ELSE LET scaled == IF MinInts(datain) < 0 THEN linear_scale(datain)
                       ELSE [i \in DOMAIN datain |-> Num(datain[i])]
             total  == SumNums(scaled)
             pmf    == [i \in DOMAIN scaled |-> Div(scaled[i], total)]
         IN  [branch |-> IF MinInts(datain) < 0 THEN "rescaled" ELSE "pmf",
              pmf    |-> [i \in DOMAIN pmf |->
                            IF pmf[i] = Zero THEN _MIN_ ELSE pmf[i]]]

score_Strict(x, threshold) ==
    LET count == SumInts([i \in DOMAIN x |-> IF x[i] > threshold THEN 1 ELSE 0])
    IN  [s |-> Div(Num(count), Num(Len(x))), count |-> count]

\* score along axis 0 of a 1-D array: fraction and count of elements >= threshold
score(x, threshold) ==
    LET count == SumInts([i \in DOMAIN x |-> IF x[i] >= threshold THEN 1 ELSE 0])
    IN  [s |-> Div(Num(count), Num(Len(x))), count |-> count]

Values == {0, 1, 2}

SignedValues == {-1, 0, 1, 2}

CallGini ==
    /\ pc = "idle"
    /\ \E x \in Vectors(Values, MaxLen), corr \in BOOLEAN :
          LET r == gini(x, corr)
          IN  /\ args' = [x |-> x, corr |-> corr]
              /\ ret' = [G |-> r.G]
              /\ heap' = r.x
    /\ call' = "gini"
    /\ pc' = "done"

CallEntropy ==
    /\ pc = "idle"
    /\ \E datain \in Vectors(SignedValues, MaxLen) :
          LET r == entropy(datain)
          IN  /\ args' = [x |-> datain]
              /\ ret' = r
              /\ heap' = datain
    /\ call' = "entropy"
    /\ pc' = "done"

CallScore ==
    /\ pc = "idle"
    /\ \E x \in Vectors(Values, MaxLen), threshold \in 0..3 :
          /\ args' = [x |-> x, threshold |-> threshold]
          /\ ret' = score(x, threshold)
          /\ heap' = x
    /\ call' = "score"
    /\ pc' = "done"

NextStats == CallGini \/ CallEntropy \/ CallScore \/ Return

SpecStats == Init /\ [][NextStats]_vars

(***************************************************************************)
(* acousticRichnessIndex                                                   *)
(***************************************************************************)
\* scipy.stats.rankdata, method 'average': ties share the mean of their ranks
rankdata(a) ==
    [i \in DOMAIN a |->
        LET less  == Cardinality({j \in DOMAIN a : a[j] < a[i]})
            equal == Cardinality({j \in DOMAIN a : a[j] = a[i]})
        IN  Div(Num(2 * less + equal + 1), Num(2))]

\* numpy broadcasting of two 1-D operands: same length, or one of length 1
Broadcastable(la, lb) == la = lb \/ la = 1 \/ lb = 1

\* elementwise product of two 1-D arrays under broadcasting
BroadcastMul(a, b) ==
    LET n == IF Len(a) >= Len(b) THEN Len(a) ELSE Len(b)
    IN  [i \in 1..n |-> Mul(IF Len(a) = 1 THEN a[1] ELSE a[i],
                            IF Len(b) = 1 THEN b[1] ELSE b[i])]

\* raised: the product of the two rank vectors cannot be formed;
\* warned: the length warning was printed
acousticRichnessIndex(Ht_array, M_array) ==
    LET warned == Len(Ht_array) # Len(M_array)
        prod   == BroadcastMul(rankdata(Ht_array), rankdata(M_array))
    IN  IF ~Broadcastable(Len(Ht_array), Len(M_array))
        THEN [raised |-> TRUE, warned |-> warned, AR |-> <<>>]
        ELSE [raised |-> FALSE, warned |-> warned,
              AR |-> [i \in DOMAIN prod |->
                        Div(prod[i], Num(Len(Ht_array) * Len(Ht_array)))]]

CallRichness ==
    /\ pc = "idle"
    /\ \E Ht_array \in Vectors(Values, MaxFiles), M_array \in Vectors(Values, MaxFiles) :
          LET r == acousticRichnessIndex(Ht_array, M_array)
          IN  /\ args' = [Ht_array |-> Ht_array, M_array |-> M_array]
              /\ ret' = [AR |-> r.AR, warned |-> r.warned]
              /\ pc' = IF r.raised THEN "raised" ELSE "done"
              /\ heap' = <<>>
    /\ call' = "acousticRichnessIndex"

NextRichness == CallRichness \/ Return

SpecRichness == Init /\ [][NextRichness]_vars

(***************************************************************************)
(* acousticGradientIndex                                                   *)
(*                                                                         *)
(* The values of a pyramid level come out of a Gaussian blur and an        *)
(* anti-aliased resize on reals; the model keeps of every array its shape  *)
(* and the pyramid level it was computed from, and keeps dt exactly.       *)
(***************************************************************************)
\* number of columns of diff(Sxx, order, axis=1): each of the order passes
\* removes one column until none is left
DiffCols(T, order) == IF T > order THEN T - order ELSE 0

ReducedCols_Floor(T) == T \div 2

\* dim[1] of the reduced power spectrogram: math.ceil(shape[1]/2)
ReducedCols(T) == CeilDiv(T, 2)

\* abs(diff(Sxx, order, axis=1)) / dt**order, normalised or not
AGI_xx_of(Sxx, order, norm) ==
    [rows |-> Sxx.rows, cols |-> DiffCols(Sxx.cols, order),
     level |-> Sxx.level, norm |-> norm]

\* mean(AGI_xx, axis=1): one value per frequency row
AGI_per_bin_of(AGI_xx) == [len |-> AGI_xx.rows, level |-> AGI_xx.level]

\* mean and sum of AGI_per_bin: scalars
AGI_scalar_of(AGI_per_bin) == [level |-> AGI_per_bin.level]

\* blur along time, resize to (rows, ceil(cols/2)), back to amplitude
Reduce(Sxx) ==
    [rows |-> Sxx.rows, cols |-> ReducedCols(Sxx.cols), level |-> Sxx.level + 1]

Norms == {"none", "per_bin", "global"}

\* entry: the five lists are empty; the loop variables are Sxx, dt and n
CallAGI ==
    /\ pc = "idle"
    /\ \E rows \in 1..MaxRows, cols \in 1..MaxFrames, dt \in 1..MaxDt,
          order \in 1..MaxOrder, norm \in Norms, n_pyr \in 1..MaxPyr :
          /\ args' = [Sxx |-> [rows |-> rows, cols |-> cols, level |-> 0],
                      dt |-> dt, order |-> order, norm |-> norm, n_pyr |-> n_pyr]
          /\ ret' = [AGI_xx_pyr |-> <<>>, AGI_per_bin_pyr |-> <<>>,
                     AGI_mean_pyr |-> <<>>, AGI_sum_pyr |-> <<>>, dt_pyr |-> <<>>,
                     Sxx |-> [rows |-> rows, cols |-> cols, level |-> 0],
                     dt |-> dt, n |-> 0]
    /\ heap' = <<>>
    /\ call' = "acousticGradientIndex"
    /\ pc' = "agi_loop"

\* one pass of the loop body: results of this level are appended, then dt is
\* doubled and Sxx is replaced by its reduction
AGILevel ==
    /\ pc = "agi_loop"
    /\ ret.n < args.n_pyr
    /\ LET AGI_xx      == AGI_xx_of(ret.Sxx, args.order, args.norm)
           AGI_per_bin == AGI_per_bin_of(AGI_xx)
       IN  ret' = [AGI_xx_pyr      |-> Append(ret.AGI_xx_pyr, AGI_xx),
                   AGI_per_bin_pyr |-> Append(ret.AGI_per_bin_pyr, AGI_per_bin),
                   AGI_mean_pyr    |-> Append(ret.AGI_mean_pyr, AGI_scalar_of(AGI_per_bin)),
                   AGI_sum_pyr     |-> Append(ret.AGI_sum_pyr, AGI_scalar_of(AGI_per_bin)),
                   dt_pyr          |-> Append(ret.dt_pyr, ret.dt),
                   Sxx             |-> Reduce(ret.Sxx),
                   dt              |-> ret.dt * 2,
                   n               |-> ret.n + 1]
    /\ UNCHANGED <<pc, call, args, heap>>

\* loop exhausted: the five lists are returned
AGIReturn ==
    /\ pc = "agi_loop"
    /\ ret.n = args.n_pyr
    /\ ret' = [AGI_xx_pyr |-> ret.AGI_xx_pyr, AGI_per_bin_pyr |-> ret.AGI_per_bin_pyr,
               AGI_mean_pyr |-> ret.AGI_mean_pyr, AGI_sum_pyr |-> ret.AGI_sum_pyr,
               dt_pyr |-> ret.dt_pyr]
    /\ pc' = "done"
    /\ UNCHANGED <<call, args, heap>>

NextAGI == CallAGI \/ AGILevel \/ AGIReturn \/ Return

SpecAGI == Init /\ [][NextAGI]_vars

(***************************************************************************)
(* entropy and gini on arrays of floats                                    *)
(***************************************************************************)
\* a < b on floats; every comparison with nan is false
LtNum(a, b) ==
    IF IsNaN(a) \/ IsNaN(b) \/ a = b THEN FALSE
    ELSE IF IsInf(a) THEN a.n < 0
    ELSE IF IsInf(b) THEN b.n > 0
    ELSE a.n * b.d < b.n * a.d

RECURSIVE MinNums(_)
\* np.min: nan if any element is nan
MinNums(x) ==
    IF Len(x) = 1 THEN x[1]
    ELSE LET m == MinNums(Tail(x))
         IN  IF IsNaN(Head(x)) \/ IsNaN(m) THEN NaN
             ELSE IF LtNum(Head(x), m) THEN Head(x) ELSE m

RECURSIVE MaxNums(_)
\* np.max: nan if any element is nan
MaxNums(x) ==
    IF Len(x) = 1 THEN x[1]
    ELSE LET m == MaxNums(Tail(x))
         IN  IF IsNaN(Head(x)) \/ IsNaN(m) THEN NaN
             ELSE IF LtNum(m, Head(x)) THEN Head(x) ELSE m

\* np.mean of a 1-D array; the mean of an empty array is nan
MeanNums(x) == Div(SumNums(x), Num(Len(x)))

RECURSIVE InsertNum(_, _)
InsertNum(v, sorted) ==
    IF sorted = <<>> THEN <<v>>
    ELSE IF LtNum(Head(sorted), v) THEN <<Head(sorted)>> \o InsertNum(v, Tail(sorted))
    ELSE <<v>> \o sorted

RECURSIVE SortNums(_)
\* x.sort() on an array without nan
SortNums(x) == IF x = <<>> THEN <<>> ELSE InsertNum(Head(x), SortNums(Tail(x)))

linear_scaleF(x) ==
    [i \in DOMAIN x |-> Div(Sub(x[i], MinNums(x)), Sub(MaxNums(x), MinNums(x)))]

\* entropy of a non-empty 1-D array of floats: the branch taken and the PMF
\* whose logarithms are summed
entropyF(datain) ==
    IF Len(datain) = 1 THEN [branch |-> "single", pmf |-> <<>>]
    ELSE IF SumNums(datain) = Zero THEN [branch |-> "null", pmf |-> <<>>]
    ELSE LET neg    == LtNum(MinNums(datain), Zero)
             scaled == IF neg THEN linear_scaleF(datain) ELSE datain
             total  == SumNums(scaled)
             pmf    == [i \in DOMAIN scaled |-> Div(scaled[i], total)]
         IN  [branch |-> IF neg THEN "rescaled" ELSE "pmf",
              pmf    |-> [i \in DOMAIN pmf |-> IF pmf[i] = Zero THEN _MIN_ ELSE pmf[i]]]

\* gini of a non-empty 1-D array of floats, corr=False; a nan element makes
\* every sum nan
giniF(x0) ==
    IF SumNums(x0) = Zero THEN Zero
    ELSE IF \E i \in DOMAIN x0 : IsNaN(x0[i]) THEN NaN
    ELSE LET n  == Len(x0)
             x  == SortNums(x0)
             G1 == SumNums([i \in 1..n |-> Mul(x[i], Num(i))])
             G2 == Sub(Div(Mul(Num(2), G1), SumNums(x)), Num(n + 1))
         IN  Div(G2, Num(n))

(***************************************************************************)
(* acousticDiversityIndex and acousticEvenessIndex                         *)
(*                                                                         *)
(* Frequencies are in Hz here, so that int() truncates as in the code.     *)
(* Sxx holds amplitudes 10^(L/20) and is given by its levels L in dB, so   *)
(* that 20*log10 of it is exact.                                           *)
(***************************************************************************)
\* np.floor of a float with positive denominator
FloorNum(q) == q.n \div q.d

\* int() of a float: truncation towards zero
TruncNum(q) == Sgn(q.n) * (Abs(q.n) \div q.d)

NumBands_Ceil(fmin, fmax, bin_step) ==
    LET q == Div(Sub(fmax, fmin), bin_step) IN -((-q.n) \div q.d)

\* N = np.floor((fmax-fmin)/bin_step)
NumBands(fmin, fmax, bin_step) == FloorNum(Div(Sub(fmax, fmin), bin_step))

\* (f0, f1) of loop pass ii
BandEdges(fmin, bin_step, ii) ==
    LET f0 == TruncNum(Add(fmin, Mul(bin_step, Num(ii))))
        f1 == TruncNum(Add(Num(f0), bin_step))
    IN  <<f0, f1>>

RECURSIVE MaxOfRows(_)
MaxOfRows(rows) ==
    IF Len(rows) = 1 THEN MaxInts(Head(rows))
    ELSE LET m == MaxOfRows(Tail(rows))
         IN  IF MaxInts(Head(rows)) > m THEN MaxInts(Head(rows)) ELSE m

\* linear2dB(Sxx/max(Sxx)) or linear2dB(Sxx), mode='amplitude', on levels
Sxx_dB_of(L, R_compatible) ==
    IF R_compatible = "soundecology"
    THEN [f \in DOMAIN L |-> [t \in DOMAIN L[f] |-> L[f][t] - MaxOfRows(L)]]
    ELSE L

\* mean over time of the fraction of the band's rows at or above threshold
BandScore(Sxx_dB, rows, threshold) ==
    MeanNums([t \in DOMAIN Sxx_dB[1] |-> score(ColumnOf(Sxx_dB, rows, t), threshold).s])

\* the loop over the bands: for every band its edges, the rows index_bw
\* selects and its score
BandScores(L, fn, fmin, fmax, bin_step, threshold, R_compatible) ==
    LET N      == NumBands(fmin, fmax, bin_step)
        Sxx_dB == Sxx_dB_of(L, R_compatible)
    IN  [k \in 1..N |->
            LET e    == BandEdges(fmin, bin_step, k - 1)
                rows == index_bw(fn, e)
            IN  [f0 |-> e[1], f1 |-> e[2], rows |-> rows,
                 s  |-> BandScore(Sxx_dB, rows, threshold)]]

ScoresOf(bands) == [k \in DOMAIN bands |-> bands[k].s]

SumOfSquaredShares(s) ==
    SumNums([k \in DOMAIN s |-> Mul(Div(s[k], SumNums(s)), Div(s[k], SumNums(s)))])

\* shannonEntropy(s) is entropy(s)*log(n): kept as the PMF and n
acousticDiversityIndex(L, fn, fmin, fmax, bin_step, threshold, index, R_compatible) ==
    LET bands == BandScores(L, fn, fmin, fmax, bin_step, threshold, R_compatible)
        s     == ScoresOf(bands)
    IN  [bands |-> bands,
         ADI   |-> IF index = "shannon" THEN [H |-> entropyF(s), n |-> Len(s)]
                   ELSE IF index = "simpson" THEN Sub(One, SumOfSquaredShares(s))
                   ELSE Div(One, SumOfSquaredShares(s))]

acousticEvenessIndex(L, fn, fmin, fmax, bin_step, threshold, R_compatible) ==
    LET bands == BandScores(L, fn, fmin, fmax, bin_step, threshold, R_compatible)
    IN  [bands |-> bands, AEI |-> giniF(ScoresOf(bands))]

\* uniform frequency grids 0, 1, ..., K Hz
FrequencyGrids == {[p \in 1..(K + 1) |-> p - 1] : K \in 2..MaxPos}

\* fmin and bin_step on whole and half Hz
BandStarts == {Zero, Fin(1, 2)}

BandSteps == {Fin(k, 2) : k \in 1..(MaxStep + 1)}

BandStops == {Fin(2 * MaxPos - 1, 2), Num(MaxPos)}

\* spectrograms of one time frame with one row per frequency of fn
OneFrameOn(fn) == [DOMAIN fn -> [1..1 -> Amplitudes]]

\* ret.bands holds the loop's record of the bands scored
CallADI ==
    /\ pc = "idle"
    /\ \E fn \in FrequencyGrids, fmin \in BandStarts, fmax \in BandStops,
          bin_step \in BandSteps, index \in {"shannon", "simpson", "invsimpson"},
          R_compatible \in {"soundecology", "none"} :
       \E Sxx \in OneFrameOn(fn) :
          LET r == acousticDiversityIndex(Sxx, fn, fmin, fmax, bin_step, 0, index, R_compatible)
          IN  /\ args' = [Sxx |-> Sxx, fn |-> fn, fmin |-> fmin, fmax |-> fmax,
                          bin_step |-> bin_step, dB_threshold |-> 0,
                          index |-> index, R_compatible |-> R_compatible]
              /\ ret' = [ADI |-> r.ADI, bands |-> r.bands]
              /\ heap' = Sxx
    /\ call' = "acousticDiversityIndex"
    /\ pc' = "done"

CallAEI ==
    /\ pc = "idle"
    /\ \E fn \in FrequencyGrids, fmin \in BandStarts, fmax \in BandStops,
          bin_step \in BandSteps, R_compatible \in {"soundecology", "none"} :
       \E Sxx \in OneFrameOn(fn) :
          LET r == acousticEvenessIndex(Sxx, fn, fmin, fmax, bin_step, 0, R_compatible)
          IN  /\ args' = [Sxx |-> Sxx, fn |-> fn, fmin |-> fmin, fmax |-> fmax,
                          bin_step |-> bin_step, dB_threshold |-> 0,
                          R_compatible |-> R_compatible]
              /\ ret' = [AEI |-> r.AEI, bands |-> r.bands]
              /\ heap' = Sxx
    /\ call' = "acousticEvenessIndex"
    /\ pc' = "done"

NextBands == CallADI \/ CallAEI \/ Return

SpecBands == Init /\ [][NextBands]_vars

(***************************************************************************)
(* tfsd, on the spectrogram itself (thirdOctave=None); frequencies in units *)
(* of 1000 Hz as for soundscapeIndex                                       *)
(***************************************************************************)
DiffTime_Abs(x) ==
    [f \in DOMAIN x |-> [t \in 1..(Len(x[f]) - 1) |-> Abs(x[f][t + 1] - x[f][t])]]

\* diff(x, n=1, axis=1)
DiffTime(x) ==
    [f \in DOMAIN x |-> [t \in 1..(Len(x[f]) - 1) |-> x[f][t + 1] - x[f][t]]]

\* diff(x, n=1, axis=0)
DiffFreq(x) ==
    [f \in 1..(Len(x) - 1) |-> [t \in DOMAIN x[f] |-> x[f + 1][t] - x[f][t]]]

AbsRow(row) == [t \in DOMAIN row |-> Abs(row[t])]

SumAbs_AbsOfSum(g) == Abs(SumInts([f \in DOMAIN g |-> SumInts(g[f])]))

\* sum(abs(g)) over a whole matrix
SumAbs(g) == SumInts([f \in DOMAIN g |-> SumInts(AbsRow(g[f]))])

\* g[rows,]: the rows of g at the selected positions
SelectRows(g, rows) == [k \in DOMAIN rows |-> g[rows[k]]]

flim_tfsd == <<2, 6>>

tfsd(Sxx, fn, flim) ==
    LET GRADdt_xx        == DiffTime(Sxx)
        GRADdf_xx        == DiffFreq(GRADdt_xx)
        rows             == index_bw(SubSeq(fn, 1, Len(fn) - 1), flim)
        GRADdf_xx_select == SelectRows(GRADdf_xx, rows)
    IN  [tfsd         |-> Div(Num(SumAbs(GRADdf_xx_select)), Num(SumAbs(GRADdf_xx))),
         tfsd_per_bin |-> [k \in DOMAIN rows |->
                             Div(Num(SumInts(AbsRow(GRADdf_xx_select[k]))),
                                 Num(SumAbs(GRADdf_xx)))]]

CallTfsd ==
    /\ pc = "idle"
    /\ \E fn \in PositionVectors, flim \in {flim_tfsd, flim_antroPh} :
       \E Sxx \in MatricesOn(fn) :
          /\ args' = [Sxx |-> Sxx, fn |-> fn, flim |-> flim]
          /\ ret' = tfsd(Sxx, fn, flim)
          /\ heap' = Sxx
    /\ call' = "tfsd"
    /\ pc' = "done"

NextTfsd == CallTfsd \/ Return

SpecTfsd == Init /\ [][NextTfsd]_vars

(***************************************************************************)
(* skewness, kurtosis and spectral_entropy                                 *)
(*                                                                         *)
(* flim is [kind |-> "none"], [kind |-> "number", value |-> v] or          *)
(* [kind |-> "tuple", value |-> <<fmin, fmax>>].  An entropy H is kept as  *)
(* the record entropyF gives, so EAS, ECU, ECV and EPS hold the H of which *)
(* they are 1 - H.                                                         *)
(***************************************************************************)
\* x - mean(x) of a 1-D array of floats
Centered(x) == [i \in DOMAIN x |-> Sub(x[i], MeanNums(x))]

RECURSIVE PowNum(_, _)
PowNum(a, k) == IF k = 1 THEN a ELSE Mul(a, PowNum(a, k - 1))

\* np.var and np.std**2: the mean of the squared deviations
VarNums(x) == MeanNums([i \in DOMAIN x |-> PowNum(Centered(x)[i], 2)])

\* (sum(z**4)/(Nf-1))/std_x**4 of a 1-D array
kurtosis(x) ==
    Div(Div(SumNums([i \in DOMAIN x |-> PowNum(Centered(x)[i], 4)]), Num(Len(x) - 1)),
        PowNum(VarNums(x), 2))

\* (sum(z**3)/(Nf-1))/std_x**3 of a 1-D array: std_x**3 is not rational, so
\* the numerator and std_x**2 are kept
skewness(x) ==
    [m3   |-> Div(SumNums([i \in DOMAIN x |-> PowNum(Centered(x)[i], 3)]), Num(Len(x) - 1)),
     var  |-> VarNums(x)]

ToNums(row) == [i \in DOMAIN row |-> Num(row[i])]

\* np.argmax of a column over the band's rows: the first row of the maximum
ArgMax(col) == CHOOSE k \in DOMAIN col :
                  /\ \A j \in DOMAIN col : col[j] <= col[k]
                  /\ \A j \in 1..(k - 1) : col[j] < col[k]

\* np.histogram(values, bins=Nbins, range=(lo, hi)) for lo < hi: Nbins equal
\* bins, the last one closed on the right, values outside left out
Histogram(values, Nbins, lo, hi) ==
    LET bin(v) == IF v = hi THEN Nbins ELSE ((v - lo) * Nbins) \div (hi - lo) + 1
    IN  [b \in 1..Nbins |->
            Cardinality({i \in DOMAIN values :
                            values[i] >= lo /\ values[i] <= hi /\ bin(values[i]) = b})]

\* the body of spectral_entropy once flim is a tuple
SpectralIndices(X, fn, flim) ==
    LET iBAND  == index_bw(fn, flim)
        XBAND  == SelectRows(X, iBAND)
        X_mean == [k \in DOMAIN XBAND |-> MeanInts(XBAND[k])]
        X_Var  == [k \in DOMAIN XBAND |-> VarNums(ToNums(XBAND[k]))]
        X_CoV  == [k \in DOMAIN XBAND |-> Div(X_Var[k], Num(MaxInts(XBAND[k])))]
        Nbins  == Len(iBAND)
        imax_X == [t \in DOMAIN X[1] |->
                     fn[ArgMax([k \in DOMAIN XBAND |-> XBAND[k][t]]) + iBAND[1] - 1]]
        counts == Histogram(imax_X, Nbins, flim[1], flim[2])
        max_X_bin == [b \in DOMAIN counts |-> Div(Num(counts[b]), Num(SumInts(counts)))]
    IN  IF iBAND = <<>>
        THEN [raised |-> TRUE, out |-> <<>>]
        ELSE [raised |-> FALSE,
              out |-> [EAS |-> entropyF(X_mean), ECU |-> entropyF(X_Var),
                       ECV |-> entropyF(X_CoV), EPS |-> entropyF(max_X_bin),
                       KURT |-> kurtosis(max_X_bin), SKEW |-> skewness(max_X_bin)]]

\* a number as flim: the warning is printed and nothing is returned; an
\* empty band: entropy returns None and 1 - None raises
spectral_entropy(X, fn, flim) ==
    IF flim.kind = "number"
    THEN [raised |-> FALSE, out |-> [returned |-> "None", warned |-> TRUE]]
    ELSE IF flim.kind = "none"
         THEN SpectralIndices(X, fn, <<MinInts(fn), MaxInts(fn)>>)
         ELSE SpectralIndices(X, fn, flim.value)

Flims ==
    {[kind |-> "none"], [kind |-> "number", value |-> 1],
     [kind |-> "tuple", value |-> flim_bioPh], [kind |-> "tuple", value |-> flim_antroPh]}

CallSpectralEntropy ==
    /\ pc = "idle"
    /\ \E fn \in PositionVectors, flim \in Flims :
       \E X \in MatricesOn(fn) :
          LET r == spectral_entropy(X, fn, flim)
          IN  /\ args' = [X |-> X, fn |-> fn, flim |-> flim]
              /\ ret' = r.out
              /\ pc' = IF r.raised THEN "raised" ELSE "done"
              /\ heap' = X
    /\ call' = "spectral_entropy"

NextSpectral == CallSpectralEntropy \/ Return

SpecSpectral == Init /\ [][NextSpectral]_vars

(***************************************************************************)
(* skewness and kurtosis of a 2-D array along axis 0: x is a sequence of   *)
(* rows, the moments are taken down each column                            *)
(***************************************************************************)
\* column j of x as floats
ColumnNums(x, j) == [i \in DOMAIN x |-> Num(x[i][j])]

\* sum(z**k) with z = x - mean(x, axis=0): the sum is taken without an axis,
\* over every element of z
SumPowDev(x, k) ==
    SumNums([j \in DOMAIN x[1] |->
                SumNums([i \in DOMAIN x |-> PowNum(Centered(ColumnNums(x, j))[i], k)])])

\* one entry per column: the numerator sum(z**3)/(Nf-1) and std_x**2
skewness_2d(x) ==
    [j \in DOMAIN x[1] |->
        [m3  |-> Div(SumPowDev(x, 3), Num(Len(x) - 1)),
         var |-> VarNums(ColumnNums(x, j))]]

\* one entry per column: (sum(z**4)/(Nf-1))/std_x**4
kurtosis_2d(x) ==
    [j \in DOMAIN x[1] |->
        Div(Div(SumPowDev(x, 4), Num(Len(x) - 1)),
            PowNum(VarNums(ColumnNums(x, j)), 2))]

CallSkewness ==
    /\ pc = "idle"
    /\ \E x \in Matrices(Amplitudes, MaxSamples, MaxSeries) :
          /\ args' = [x |-> x, axis |-> 0]
          /\ ret' = skewness_2d(x)
          /\ heap' = x
    /\ call' = "skewness"
    /\ pc' = "done"

CallKurtosis ==
    /\ pc = "idle"
    /\ \E x \in Matrices(Amplitudes, MaxSamples, MaxSeries) :
          /\ args' = [x |-> x, axis |-> 0]
          /\ ret' = kurtosis_2d(x)
          /\ heap' = x
    /\ call' = "kurtosis"
    /\ pc' = "done"

NextMoments == CallSkewness \/ CallKurtosis \/ Return

SpecMoments == Init /\ [][NextMoments]_vars

(***************************************************************************)
(* acoustic_activity on a 2-D xdB (frequency rows, time columns), axis=1   *)
(***************************************************************************)
RECURSIVE Flatten(_)
\* the elements of a 2-D array in row-major order
Flatten(rows) == IF rows = <<>> THEN <<>> ELSE Head(rows) \o Flatten(Tail(rows))

\* xdB[xdB > dB_threshold]: the selected elements as a 1-D array
AboveThreshold(xdB, threshold) ==
    SelectSeq(Flatten(xdB), LAMBDA v : v > threshold)

\* ACTmean is 10*log10(mean(10**(s/10))) over the selected samples s, kept
\* as those samples
acoustic_activity(xdB, threshold) ==
    [ACTfract |-> [f \in DOMAIN xdB |-> score(xdB[f], threshold).s],
     ACTcount |-> [f \in DOMAIN xdB |-> score(xdB[f], threshold).count],
     ACTmean  |-> [samples |-> AboveThreshold(xdB, threshold)]]

CallAcousticActivity ==
    /\ pc = "idle"
    /\ \E xdB \in Matrices(Samples, MaxRows, MaxCols) :
          /\ args' = [xdB |-> xdB, dB_threshold |-> dB_threshold, axis |-> 1]
          /\ ret' = acoustic_activity(xdB, dB_threshold)
          /\ heap' = xdB
    /\ call' = "acoustic_activity"
    /\ pc' = "done"

NextActivity == CallAcousticActivity \/ Return

SpecActivity == Init /\ [][NextActivity]_vars

(***************************************************************************)
(* Claims about acoustic_events                                            *)
(***************************************************************************)
\* maximal runs of ones of a binary vector, as <<start, length>>
MaximalRuns(b) ==
    {run \in (1..Len(b)) \X (1..Len(b)) :
        /\ run[1] + run[2] - 1 <= Len(b)
        /\ \A i \in run[1]..(run[1] + run[2] - 1) : b[i] = 1
        /\ (run[1] = 1 \/ b[run[1] - 1] = 0)
        /\ (run[1] + run[2] - 1 = Len(b) \/ b[run[1] + run[2]] = 0)}

EventsDone == pc = "done" /\ call \in {"acoustic_events_1d", "acoustic_events_2d"}

\* rows of the threshold mask and of the returned EVN mask
MaskRows ==
    IF call = "acoustic_events_1d"
    THEN Binarize(<<args.xdB>>, args.dB_threshold)
    ELSE Binarize(args.xdB, args.dB_threshold)

EVNRows == IF call = "acoustic_events_1d" THEN <<ret.EVN>> ELSE ret.EVN

ArgRejectLength == RejectLength(args.rejectDuration, args.dt)

C2_SingleRunSumAndCount ==
    (/\ pc = "done"
     /\ call = "acoustic_events_1d"
     /\ args.rejectDuration = 0
     /\ Cardinality(MaximalRuns(MaskRows[1])) = 1) =>
        LET run      == CHOOSE q \in MaximalRuns(MaskRows[1]) : TRUE
            duration == (Len(args.xdB) - 1) * args.dt
        IN  /\ ret.EVNsum = Num(run[2] * args.dt)
            /\ IsFinite(ret.EVNcount)
            /\ Mul(ret.EVNcount, Num(duration)) = One

\* C3: a non-empty 1-D input whose samples are all below dB_threshold yields
\* EVNsum = 0, EVNcount = 0 and EVNmean = 0, with or without rejectDuration.
C3_AllBelowThresholdIsZero ==
    (/\ pc = "done"
     /\ call = "acoustic_events_1d"
     /\ \A i \in DOMAIN args.xdB : args.xdB[i] < args.dB_threshold) =>
        /\ ret.EVNsum = Zero
        /\ ret.EVNcount = Zero
        /\ ret.EVNmean = Zero

\* C4: on a 2-D input every row i gets the EVNsum[i], EVNmean[i], EVNcount[i]
\* and mask row EVN[i] that acoustic_events returns for that row alone as a
\* 1-D vector with the same dt, dB_threshold and rejectDuration.
C4_RowsAsVectors ==
    (pc = "done" /\ call = "acoustic_events_2d") =>
        \A i \in DOMAIN args.xdB :
            LET alone == acoustic_events_1d(args.xdB[i], args.dt,
                                            args.dB_threshold, args.rejectDuration)
            IN  /\ ret.EVNsum[i] = alone.EVNsum
                /\ ret.EVNmean[i] = alone.EVNmean
                /\ ret.EVNcount[i] = alone.EVNcount
                /\ ret.EVN[i] = alone.EVN

\* a two-row call where the opening removed a run in one row while the
\* neighbouring row kept an event over the same columns
C4_Witness ==
    /\ pc = "done"
    /\ call = "acoustic_events_2d"
    /\ Len(args.xdB) = 2
    /\ args.rejectDuration # None
    /\ ArgRejectLength >= 1
    /\ \E run \in MaximalRuns(MaskRows[1]) :
          /\ run \notin MaximalRuns(EVNRows[1])
          /\ \A i \in run[1]..(run[1] + run[2] - 1) : EVNRows[2][i] = 1

(***************************************************************************)
(* Claims about intoBins, _energy_per_freqbin and soundscapeIndex          *)
(***************************************************************************)
\* C5: intoBins raises, before computing any bin, for every bin_step strictly
\* smaller than the native resolution an[1]-an[0] (the first two positions),
\* and does not raise for bin_step equal to or larger than that resolution.
C5_RaisesIffStepBelowResolution ==
    (call = "intoBins" /\ pc \in {"done", "raised"}) =>
        /\ (pc = "raised") <=> (args.bin_step < args.an[2] - args.an[1])
        /\ (pc = "raised") => (ret.xbin = <<>> /\ ret.bins = <<>>)

\* a call that raised with bin_step just below the resolution
C5_Witness ==
    /\ call = "intoBins"
    /\ pc = "raised"
    /\ args.bin_step = args.an[2] - args.an[1] - 1

\* C6: with bin_min and bin_max at their defaults every position of an,
\* the last one included, falls in exactly one returned half-open bin
\* [bins[k], bins[k]+bin_step), and the bins are consecutive.
C6_BinsPartitionPositions ==
    (call = "intoBins" /\ pc = "done") =>
        /\ \A p \in DOMAIN args.an :
              Cardinality({k \in DOMAIN ret.bins :
                              /\ ret.bins[k] <= args.an[p]
                              /\ args.an[p] < ret.bins[k] + args.bin_step}) = 1
        /\ \A k \in 1..(Len(ret.bins) - 1) :
              ret.bins[k + 1] = ret.bins[k] + args.bin_step

\* the positions of an that lie in the half-open bin starting at lower
PositionsInBin(an, lower, bin_step) ==
    {p \in DOMAIN an : lower <= an[p] /\ an[p] < lower + bin_step}

RECURSIVE SumOverPositions(_, _)
SumOverPositions(x, P) ==
    IF P = {} THEN 0
    ELSE LET p == CHOOSE q \in P : TRUE
         IN  SumInts(x[p]) + SumOverPositions(x, P \ {p})

RECURSIVE SumColumnOver(_, _, _)
SumColumnOver(x, P, t) ==
    IF P = {} THEN 0
    ELSE LET p == CHOOSE q \in P : TRUE
         IN  x[p][t] + SumColumnOver(x, P \ {p}, t)

\* intoBins returned, for every bin and frame, the sum of the x values whose
\* position falls in the bin
XbinIsSum ==
    \A k \in DOMAIN ret.bins : \A t \in DOMAIN args.x[1] :
        ret.xbin[k][t] =
            Num(SumColumnOver(args.x,
                    PositionsInBin(args.an, ret.bins[k], args.bin_step), t))

\* the lower edges of the bins _energy_per_freqbin asks intoBins for
EnergyBins == Arange(0, args.fn[Len(args.fn)], args.bin_step)

\* _energy_per_freqbin returned the sum of PSDxx over all frames and all
\* positions that lie in the bins selected by flim
EnergyIsSum ==
    ret.energy =
        Num(SumOverPositions(args.PSDxx,
                UNION {PositionsInBin(args.fn, EnergyBins[k], args.bin_step) :
                          k \in {j \in DOMAIN EnergyBins :
                                    /\ args.flim[1] <= EnergyBins[j]
                                    /\ EnergyBins[j] <= args.flim[2]}}))

\* every bin holds the same number c >= 1 of positions
EqualOccupancy(an, lowers, bin_step) ==
    \E c \in 1..Len(an) : \A k \in DOMAIN lowers :
        Cardinality(PositionsInBin(an, lowers[k], bin_step)) = c

\* C9 as stated: for every bin_step >= the native resolution each value
\* returned by intoBins is the sum of the x values whose position falls in
\* the bin, and _energy_per_freqbin returns the sum of PSDxx over all frames
\* and all positions lying in the bins selected by flim.
C9_BinValueIsSum ==
    /\ (call = "intoBins" /\ pc = "done") => XbinIsSum
    /\ (call = "_energy_per_freqbin" /\ pc = "done") => EnergyIsSum

\* C9 amended: each value returned by intoBins is the mean of the bin times
\* the mean number of positions per bin; this is the sum of the x values of
\* the bin, and the band energy is the sum of PSDxx over the selected bins,
\* whenever all bins hold the same number (at least one) of positions.
C9_BinValueIsSumOnEqualBins ==
    /\ (/\ call = "intoBins"
        /\ pc = "done"
        /\ EqualOccupancy(args.an, ret.bins, args.bin_step)) => XbinIsSum
    /\ (/\ call = "_energy_per_freqbin"
        /\ pc = "done"
        /\ EqualOccupancy(args.fn, EnergyBins, args.bin_step)) => EnergyIsSum

\* two bins of two positions each, holding different sums
C9_Witness ==
    /\ call = "intoBins"
    /\ pc = "done"
    /\ Len(ret.bins) = 2
    /\ \A k \in DOMAIN ret.bins :
          Cardinality(PositionsInBin(args.an, ret.bins[k], args.bin_step)) = 2
    /\ ret.xbin[1][1] = Num(2)
    /\ ret.xbin[2][1] = Num(1)

UniformFromZero(fn) ==
    /\ fn[1] = 0
    /\ \A p \in 1..(Len(fn) - 1) : fn[p + 1] - fn[p] = fn[2] - fn[1]

InBand(f, band) == band[1] <= f /\ f <= band[2]

\* C8: on a spectrogram (frequencies on a regular grid from 0, default step)
\* whose energy is nonzero only at frequencies inside the biophony band and
\* zero at every frequency of the anthropophony band, soundscapeIndex returns
\* NDSI = 1 and ratioBA = inf.
C8_AllEnergyInBioBand ==
    (/\ call = "soundscapeIndex"
     /\ pc = "done"
     /\ args.step = None
     /\ UniformFromZero(args.fn)
     /\ \E p \in DOMAIN args.Sxx : \E t \in DOMAIN args.Sxx[p] : args.Sxx[p][t] # 0
     /\ \A p \in DOMAIN args.Sxx : \A t \in DOMAIN args.Sxx[p] :
           /\ args.Sxx[p][t] # 0 => InBand(args.fn[p], args.flim_bioPh)
           /\ InBand(args.fn[p], args.flim_antroPh) => args.Sxx[p][t] = 0) =>
        /\ ret.NDSI = One
        /\ ret.ratioBA = Inf

(***************************************************************************)
(* Claims about acousticComplexityIndex and the array statistics           *)
(***************************************************************************)
\* C7: every function is pure with respect to its arguments: after any call
\* (gini, entropy, score) the caller's input array holds the same values in
\* the same order as before the call.
C7_InputArrayUnchanged ==
    (pc = "done" /\ call \in {"gini", "entropy", "score"}) => heap = args.x

\* C10: acousticComplexityIndex with norm = 'global' on a spectrogram whose
\* total sum is zero divides by a guarded (nonzero) denominator and returns
\* defined values (no division by zero).
C10_GlobalNormZeroSumDefined ==
    (/\ pc = "done"
     /\ call = "acousticComplexityIndex"
     /\ args.norm = "global"
     /\ TotalSum(args.Sxx) = 0) =>
        /\ IsFinite(ret.ACI_sum)
        /\ \A p \in DOMAIN ret.ACI_xx :
              /\ IsFinite(ret.ACI_per_bin[p])
              /\ \A t \in DOMAIN ret.ACI_xx[p] : IsFinite(ret.ACI_xx[p][t])

C15_GiniOfEqualValuesIsZero ==
    (/\ pc = "done"
     /\ call = "gini"
     /\ \A i \in DOMAIN args.x : args.x[i] = args.x[1]
     /\ (args.x[1] = 0 \/ ~args.corr)) => ret.G = Zero

\* a call on at least two equal positive values, corr=False
C15_Witness ==
    /\ pc = "done"
    /\ call = "gini"
    /\ ~args.corr
    /\ Len(args.x) >= 2
    /\ args.x[1] > 0
    /\ \A i \in DOMAIN args.x : args.x[i] = args.x[1]
    /\ ret.G = Zero

\* C16: for an array of length >= 2, entropy takes the null-entropy shortcut
\* (returns 0 without forming a PMF) exactly when the input is all-zero, and
\* every input that contains a negative value is rescaled into [0,1] before
\* the PMF is formed.
C16_NullShortcutOnlyForAllZero ==
    (pc = "done" /\ call = "entropy" /\ Len(args.x) >= 2) =>
        /\ (ret.branch = "null") <=> (\A i \in DOMAIN args.x : args.x[i] = 0)
        /\ (\E i \in DOMAIN args.x : args.x[i] < 0) => ret.branch = "rescaled"

ScaleBy(c, x) == [i \in DOMAIN x |-> c * x[i]]

\* C17: for every 1-D array of strictly positive values and every positive
\* constant c, the PMF formed from c*x is identical to the PMF formed from x
\* (so entropy(c*x) = entropy(x)).
C17_EntropyScaleInvariant ==
    (/\ pc = "done"
     /\ call = "entropy"
     /\ \A i \in DOMAIN args.x : args.x[i] > 0) =>
        \A c \in 1..MaxScale :
            /\ entropy(ScaleBy(c, args.x)).branch = ret.branch
            /\ entropy(ScaleBy(c, args.x)).pmf = ret.pmf

\* a call on unequal positive values, for which a PMF was formed
C17_Witness ==
    /\ pc = "done"
    /\ call = "entropy"
    /\ Len(args.x) >= 2
    /\ \A i \in DOMAIN args.x : args.x[i] > 0
    /\ \E i \in DOMAIN args.x : args.x[i] # args.x[1]
    /\ ret.branch = "pmf"
    /\ SumNums(ret.pmf) = One

(***************************************************************************)
(* Claims about acousticRichnessIndex                                      *)
(***************************************************************************)
\* C12: when acousticRichnessIndex is given Ht_array and M_array of different
\* lengths it reports a warning and the call still completes and returns a
\* result without raising.
C12_LengthMismatchStillReturns ==
    (/\ call = "acousticRichnessIndex"
     /\ pc \in {"done", "raised"}
     /\ Len(args.Ht_array) # Len(args.M_array)) =>
        /\ ret.warned
        /\ pc = "done"
        /\ ret.AR # <<>>

(***************************************************************************)
(* Claims about acousticGradientIndex                                      *)
(***************************************************************************)
RECURSIVE Pow2(_)
Pow2(k) == IF k = 0 THEN 1 ELSE 2 * Pow2(k - 1)

RECURSIVE LevelCols(_, _)
\* T_k: time length of pyramid level k, T_0 = T0 and T_{k+1} = ceil(T_k / 2)
LevelCols(T0, k) == IF k = 0 THEN T0 ELSE (LevelCols(T0, k - 1) + 1) \div 2

AGIDone == pc = "done" /\ call = "acousticGradientIndex"

\* lists of n_pyr entries, dt_pyr[k] = dt * 2^k, rows of the input, each
\* level computed from the one before (levels are numbered from 0)
AGIListsAndDt ==
    /\ Len(ret.AGI_xx_pyr) = args.n_pyr
    /\ Len(ret.AGI_per_bin_pyr) = args.n_pyr
    /\ Len(ret.AGI_mean_pyr) = args.n_pyr
    /\ Len(ret.AGI_sum_pyr) = args.n_pyr
    /\ Len(ret.dt_pyr) = args.n_pyr
    /\ \A k \in 0..(args.n_pyr - 1) :
          /\ ret.dt_pyr[k + 1] = args.dt * Pow2(k)
          /\ ret.AGI_xx_pyr[k + 1].rows = args.Sxx.rows
          /\ ret.AGI_xx_pyr[k + 1].level = k
          /\ ret.AGI_per_bin_pyr[k + 1].len = args.Sxx.rows

\* C13 (as stated): acousticGradientIndex returns one result set per pyramid
\* level in coarsening order: each of the five lists has exactly n_pyr
\* entries, dt_pyr[k] = dt * 2^k, level k's AGI_xx has the input's rows and
\* T_k - order time columns with T_0 the input's time length and
\* T_{k+1} = ceil(T_k / 2); level k+1 is computed only from level k.
C13_ColsAreTkMinusOrder ==
    AGIDone =>
        /\ AGIListsAndDt
        /\ \A k \in 0..(args.n_pyr - 1) :
              ret.AGI_xx_pyr[k + 1].cols = LevelCols(args.Sxx.cols, k) - args.order

\* C13 (amended): as above, but level k's AGI_xx has max(T_k - order, 0)
\* time columns: a level with no more than order columns yields none.
C13_ColsAreTkMinusOrderOrNone ==
    AGIDone =>
        /\ AGIListsAndDt
        /\ \A k \in 0..(args.n_pyr - 1) :
              LET Tk == LevelCols(args.Sxx.cols, k)
              IN  ret.AGI_xx_pyr[k + 1].cols = IF Tk >= args.order THEN Tk - args.order ELSE 0

\* a three-level pyramid over an odd time length, the last level shorter
\* than the order of the derivative
C13_Witness ==
    /\ AGIDone
    /\ args.n_pyr = 3
    /\ args.Sxx.cols = 3
    /\ args.order = 2
    /\ ret.AGI_xx_pyr[1].cols = 1
    /\ ret.AGI_xx_pyr[3].cols = 0
    /\ ret.dt_pyr[3] = 4 * args.dt

(***************************************************************************)
(* Claims about acousticDiversityIndex and acousticEvenessIndex            *)
(***************************************************************************)
BandsDone == pc = "done" /\ call \in {"acousticDiversityIndex", "acousticEvenessIndex"}

\* floor((fmax - fmin) / bin_step), from the numerators and denominators
ArgNumBands ==
    ((args.fmax.n * args.fmin.d - args.fmin.n * args.fmax.d) * args.bin_step.d)
        \div (args.fmax.d * args.fmin.d * args.bin_step.n)

\* fmin + ii * bin_step
ArgEdge(ii) == Add(args.fmin, Mul(Num(ii), args.bin_step))

\* positions of fn with lo <= fn[p] <= hi, lo and hi floats
PositionsWithin(lo, hi) ==
    {p \in DOMAIN args.fn : ~LtNum(Num(args.fn[p]), lo) /\ ~LtNum(hi, Num(args.fn[p]))}

RowsScored(k) == {ret.bands[k].rows[j] : j \in DOMAIN ret.bands[k].rows}

\* N bands, none above fmax, nothing above fmin + N*bin_step scored
BandCountAndRemainder ==
    /\ Len(ret.bands) = ArgNumBands
    /\ \A k \in DOMAIN ret.bands :
          /\ ~LtNum(args.fmax, Num(ret.bands[k].f1))
          /\ \A p \in RowsScored(k) :
                /\ ~LtNum(args.fmax, Num(args.fn[p]))
                /\ ~LtNum(ArgEdge(ArgNumBands), Num(args.fn[p]))

\* C18 (as stated): ADI and AEI score exactly N = floor((fmax-fmin)/bin_step)
\* bands, band ii covering fmin + ii*bin_step up to fmin + (ii+1)*bin_step, so
\* no band reaches above fmax and the remainder below fmax that does not fill
\* a whole band is not scored.
C18_BandsStartAtMultiplesOfStep ==
    BandsDone =>
        /\ BandCountAndRemainder
        /\ \A k \in DOMAIN ret.bands :
              /\ Num(ret.bands[k].f0) = ArgEdge(k - 1)
              /\ Num(ret.bands[k].f1) = ArgEdge(k)
              /\ RowsScored(k) = PositionsWithin(ArgEdge(k - 1), ArgEdge(k))

\* C18 (amended): exactly N bands are scored, no band reaches above fmax and
\* the remainder is not scored; band ii covers int(fmin + ii*bin_step) up to
\* int(int(fmin + ii*bin_step) + bin_step), which is fmin + ii*bin_step up to
\* fmin + (ii+1)*bin_step when fmin and bin_step are whole numbers of Hz.
C18_BandsStartAtTruncatedMultiples ==
    BandsDone =>
        /\ BandCountAndRemainder
        /\ \A k \in DOMAIN ret.bands :
              LET e  == ArgEdge(k - 1)
                  f0 == e.n \div e.d
                  e1 == Add(Num(f0), args.bin_step)
                  f1 == e1.n \div e1.d
              IN  /\ ret.bands[k].f0 = f0
                  /\ ret.bands[k].f1 = f1
                  /\ RowsScored(k) = PositionsWithin(Num(f0), Num(f1))
                  /\ (args.fmin.d = 1 /\ args.bin_step.d = 1) =>
                        /\ Num(f0) = e
                        /\ Num(f1) = ArgEdge(k)

\* two or more bands whose edges were truncated, and a frequency of fn in
\* the remainder below fmax
C18_Witness ==
    /\ BandsDone
    /\ Len(ret.bands) >= 2
    /\ \E k \in DOMAIN ret.bands : Num(ret.bands[k].f0) # ArgEdge(k - 1)
    /\ \E p \in DOMAIN args.fn :
          /\ LtNum(ArgEdge(Len(ret.bands)), Num(args.fn[p]))
          /\ ~LtNum(args.fmax, Num(args.fn[p]))
          /\ \A k \in DOMAIN ret.bands : p \notin RowsScored(k)

(***************************************************************************)
(* Claims about tfsd                                                       *)
(***************************************************************************)
TfsdDone == pc = "done" /\ call = "tfsd"

\* C19 (as stated): in tfsd the order of the two differencing stages matters:
\* differencing along time and then along frequency yields, for some
\* spectrogram, a different gradient matrix than differencing along frequency
\* and then along time.
C19_OrderMattersForSomeSpectrogram ==
    TfsdDone =>
        \E Sxx \in MatricesOn(args.fn) :
            DiffFreq(DiffTime(Sxx)) # DiffTime(DiffFreq(Sxx))

\* C19 (amended): the order of the two stages does not matter: for every
\* spectrogram the time-then-frequency gradient that tfsd uses is the matrix
\* that frequency-then-time differencing gives, whose entries are
\* x[f+1][t+1] - x[f+1][t] - x[f][t+1] + x[f][t].
C19_DifferencingStagesCommute ==
    TfsdDone =>
        LET x == args.Sxx
        IN  /\ DiffFreq(DiffTime(x)) = DiffTime(DiffFreq(x))
            /\ DiffFreq(DiffTime(x)) =
                  [f \in 1..(Len(x) - 1) |-> [t \in 1..(Len(x[1]) - 1) |->
                      x[f + 1][t + 1] - x[f + 1][t] - x[f][t + 1] + x[f][t]]]

\* a call whose gradient has entries of both signs
C19_Witness ==
    /\ TfsdDone
    /\ \E f \in 1..(Len(args.Sxx) - 1), t \in 1..(Len(args.Sxx[1]) - 1) :
          DiffFreq(DiffTime(args.Sxx))[f][t] > 0
    /\ \E f \in 1..(Len(args.Sxx) - 1), t \in 1..(Len(args.Sxx[1]) - 1) :
          DiffFreq(DiffTime(args.Sxx))[f][t] < 0

\* C20: for every spectrogram whose total absolute pseudo-gradient is nonzero
\* and every band flim, the tfsd scalar lies in [0, 1], because the rows of
\* the band are a subset of the rows summed in the denominator.
C20_TfsdBetweenZeroAndOne ==
    (TfsdDone /\ SumAbs(DiffFreq(DiffTime(args.Sxx))) # 0) =>
        /\ IsFinite(ret.tfsd)
        /\ 0 <= ret.tfsd.n
        /\ ret.tfsd.n <= ret.tfsd.d
        /\ Len(ret.tfsd_per_bin) <= Len(args.Sxx) - 1
        /\ SumNums(ret.tfsd_per_bin) = ret.tfsd

\* a band that holds part, not all, of a nonzero gradient
C20_Witness ==
    /\ TfsdDone
    /\ SumAbs(DiffFreq(DiffTime(args.Sxx))) # 0
    /\ ret.tfsd.n > 0
    /\ ret.tfsd.n < ret.tfsd.d

(***************************************************************************)
(* Claims about spectral_entropy                                           *)
(***************************************************************************)
\* C11: spectral_entropy called with a scalar (non-tuple number) flim raises an
\* error that aborts the call, rather than returning a value; with flim=None
\* it uses the full range (min(fn), max(fn)).
C11_ScalarFlimRaises ==
    (call = "spectral_entropy" /\ pc \in {"done", "raised"}) =>
        /\ (args.flim.kind = "number") => pc = "raised"
        /\ (args.flim.kind = "none") =>
              /\ pc = "done"
              /\ ret = SpectralIndices(args.X, args.fn,
                                       <<args.fn[1], args.fn[Len(args.fn)]>>).out

(***************************************************************************)
(* Claims about skewness and kurtosis                                      *)
(***************************************************************************)
\* C21: for a 2-D array x, skewness(x, axis=0) and kurtosis(x, axis=0) return
\* one value per column, and entry j equals the skewness (kurtosis) obtained
\* by calling the same function on column j alone as a 1-D vector: the moment
\* sum in entry j uses only column j's deviations.
C21_MomentsPerColumn ==
    (pc = "done" /\ call \in {"skewness", "kurtosis"}) =>
        /\ Len(ret) = Len(args.x[1])
        /\ \A j \in DOMAIN args.x[1] :
              ret[j] = IF call = "skewness"
                       THEN skewness(ColumnNums(args.x, j))
                       ELSE kurtosis(ColumnNums(args.x, j))

(***************************************************************************)
(* Claims about acoustic_activity                                          *)
(***************************************************************************)
\* number of elements of xdB, or of the averaged samples, equal to v
CountInInput(v) ==
    Cardinality({c \in (DOMAIN args.xdB) \X (DOMAIN args.xdB[1]) : args.xdB[c[1]][c[2]] = v})

CountInSamples(v) ==
    Cardinality({i \in DOMAIN ret.ACTmean.samples : ret.ACTmean.samples[i] = v})

\* C22: in acoustic_activity the samples averaged for ACTmean are exactly the
\* samples counted as above threshold by ACTcount/ACTfract: a sample
\* contributes to ACTmean if and only if it is counted by score (including
\* samples equal to dB_threshold), so the number of samples averaged equals
\* the total of ACTcount.
C22_MeanOverCountedSamples ==
    (pc = "done" /\ call = "acoustic_activity") =>
        /\ Len(ret.ACTmean.samples) = SumInts(ret.ACTcount)
        /\ \A v \in Samples :
              CountInSamples(v) = IF v >= args.dB_threshold THEN CountInInput(v) ELSE 0

(***************************************************************************)
(* Claims about the bands of soundscapeIndex                               *)
(***************************************************************************)
SoundscapeDone == pc = "done" /\ call = "soundscapeIndex"

\* C23: for every spectrogram for which bioPh + antroPh > 0, soundscapeIndex
\* returns -1 <= NDSI <= 1, with NDSI = 1 exactly when antroPh = 0 and
\* NDSI = -1 exactly when bioPh = 0.
C23_NDSIBetweenMinusOneAndOne ==
    (SoundscapeDone /\ LtNum(Zero, Add(ret.bioPh, ret.antroPh))) =>
        /\ IsFinite(ret.NDSI)
        /\ ~LtNum(ret.NDSI, Num(-1))
        /\ ~LtNum(One, ret.NDSI)
        /\ (ret.NDSI = One) <=> (ret.antroPh = Zero)
        /\ (ret.NDSI = Num(-1)) <=> (ret.bioPh = Zero)

\* energy in both bands, more of it in the anthropophony band
C23_Witness ==
    /\ SoundscapeDone
    /\ LtNum(Zero, ret.bioPh)
    /\ LtNum(ret.bioPh, ret.antroPh)
    /\ LtNum(Num(-1), ret.NDSI)
    /\ LtNum(ret.NDSI, Zero)

\* the bins _energy_per_freqbin builds for this call, and those a band selects
SoundscapeBins ==
    LET bin_step == IF args.step = None THEN args.fn[2] - args.fn[1] ELSE args.step
    IN  intoBins(Square(args.Sxx), args.fn, bin_step, 0, args.fn[Len(args.fn)]).bins

BinsSelected(flim) ==
    {index_bw(SoundscapeBins, flim)[k] : k \in DOMAIN index_bw(SoundscapeBins, flim)}

\* C24: with the default bands flim_bioPh=(1000,10000) and
\* flim_antroPh=(0,1000), and index_bw selecting positions within the closed
\* interval [lo, hi], no frequency bin's energy is included in both bioPh and
\* antroPh: the two band selections made in _energy_per_freqbin are disjoint.
C24_DefaultBandsDisjoint ==
    (/\ SoundscapeDone
     /\ args.flim_bioPh = flim_bioPh
     /\ args.flim_antroPh = flim_antroPh) =>
        BinsSelected(args.flim_bioPh) \cap BinsSelected(args.flim_antroPh) = {}

====
